---- MODULE Spec2Model ----
(***************************************************************************)
(* Model of the Codabench bundle of the grain-variety challenge:           *)
(*   scoring_program/score.py      class Scoring                           *)
(*   ingestion_program/ingestion.py class Ingestion                        *)
(*                                                                         *)
(* Python values are represented as follows.                               *)
(*   None / a value v      <<>> / <<v>>   (Some(v))                        *)
(*   dict                  a function on the set of its keys               *)
(*   list                  a sequence                                      *)
(*   a JSON or CSV number  an integer number of halves (7 stands for 3.5), *)
(*                         so that int() is a real truncation              *)
(*   a value once int()-ed an integer                                      *)
(*   round(x, 6)           an integer number of millionths                 *)
(*   round(x, 2)           an integer number of hundredths                 *)
(***************************************************************************)
EXTENDS Integers, Sequences, FiniteSets, TLC

\* ------------------------------------------------------------------ bounds
\* variety labels are 1..MaxVariety
MaxVariety == 2
\* rows of reference_data.csv and entries of result.json read by the loaders
MaxEntries == 1
\* rows of input_data.csv read by load_train_and_test_data
MaxRows == 2
\* rows of input_data.csv in a whole ingestion run
MaxRunRows == 1
\* predictions the model may return beyond, or short of, the number of test samples
MaxOff == 1
\* the half minutes the clock of the ingestion advances by
MaxClock == 2
\* names in the list given to one call of _load_npz_files
MaxFiles == 2

\* ------------------------------------------------------- program constants
\* round(accuracy, 6)
ScoreDigits == 6
\* round(accuracy * 100, 2)
PercentDigits == 2

\* ------------------------------------------------------------ Python values
None == <<>>
Some(v) == <<v>>
Get(o) == o[1]

EmptyDict == [k \in {} |-> 0]

\* grain ids as they appear as keys of result.json and in reference_data.csv
GrainIds == {"5", "7", "9"}

Varieties == 1..MaxVariety

\* the numbers read from result.json and reference_data.csv, in halves: 1.0, 1.5, 2.0
Numbers == {2, 3, 4}

\* int(x) of a number given in halves: truncation toward zero
PyInt(h) == IF h >= 0 THEN h \div 2 ELSE -((-h) \div 2)

\* bool(x) of an optional dict: None and {} are falsy
Truthy(o) == o # None /\ DOMAIN Get(o) # {}

RECURSIVE Pow10(_)
Pow10(n) == IF n = 0 THEN 1 ELSE 10 * Pow10(n - 1)

\* round(num/den, digits) in units of 10^-digits, ties to even
RoundRatio(num, den, digits) ==
    LET scaled == num * Pow10(digits)
        q == scaled \div den
        r == scaled % den
    IN  IF 2 * r < den THEN q
        ELSE IF 2 * r > den THEN q + 1
        ELSE IF q % 2 = 0 THEN q ELSE q + 1

VARIABLES
    stage,               \* the process that runs: "ingestion" or "scoring"
    call,                \* the last call made on the orchestrator and how it ended
    reference_data,      \* Scoring.reference_data: None or dict grain id -> variety
    ingestion_result,    \* Scoring.ingestion_result: None or dict grain id -> number
    ingestion_duration,  \* Scoring.ingestion_duration: None or minutes
    scores_dict,         \* Scoring.scores_dict: dict field -> value
    scores_json,         \* content of scores.json: None (no file) or the dict written
    input_dir,           \* the input directory of the ingestion: manifest and sample files
    train_data,          \* Ingestion.train_data: None or [X, y, grain_ids]
    test_data,           \* Ingestion.test_data: None or [X, grain_ids]
    test_grain_ids,      \* Ingestion.test_grain_ids: None or list of grain ids
    predictions,         \* Ingestion.predictions: None or list of numbers
    Ingestion_result,    \* Ingestion.ingestion_result: None or [predictions, num_predictions]
    result_json,         \* content of result.json: None (no file) or the dict written
    now,                 \* what dt.now() returns, in half minutes
    start_time,          \* Ingestion.start_time: None or a time
    end_time,            \* Ingestion.end_time: None or a time
    duration_json        \* content of ingestion_duration.json: None (no file) or the dict

scoring_vars ==
    <<reference_data, ingestion_result, ingestion_duration, scores_dict, scores_json>>

timer_vars == <<now, start_time, end_time, duration_json>>

ingestion_vars ==
    <<input_dir, train_data, test_data, test_grain_ids, predictions, Ingestion_result,
      result_json, timer_vars>>

vars == <<stage, call, scoring_vars, ingestion_vars>>

\* ------------------------------------------------------------------ Scoring
\* d.get(key, default)
DictGet(d, key, default) == IF key \in DOMAIN d THEN d[key] ELSE default

\* d.get(key, None), as an optional value
DictGetOrNone(d, key) == IF key \in DOMAIN d THEN Some(d[key]) ELSE None

\* dicts with keys among K and values in V
Dicts(K, V) == UNION {[S -> V] : S \in SUBSET K}

\* dicts of at most n entries
SmallDicts(K, V, n) == {d \in Dicts(K, V) : Cardinality(DOMAIN d) <= n}

PredictionMaps == Dicts(GrainIds, Numbers)
ReferenceMaps == Dicts(GrainIds, Varieties)

\* reference_data.csv: None when the file is absent, else its rows in order
ReferenceRows == [grainID : GrainIds, varietyNumber : Numbers]
ReferenceFiles ==
    {None} \cup {Some(rows) : rows \in UNION {[1..n -> ReferenceRows] : n \in 0..MaxEntries}}

\* result.json: None when absent, else the parsed object, with or without 'predictions'
ResultFiles ==
    {None}
    \cup {Some([predictions |-> m, num_predictions |-> Cardinality(DOMAIN m)]) :
            m \in SmallDicts(GrainIds, Numbers, MaxEntries)}
    \cup {Some([num_predictions |-> 0])}

\* ingestion_duration.json: None when absent, else the parsed object
DurationFiles == {None, Some([ingestion_duration |-> 1]), Some(EmptyDict)}

\* the loop of load_reference_data: later rows overwrite earlier ones
RECURSIVE ReferenceDict(_)
ReferenceDict(rows) ==
    IF rows = <<>> THEN EmptyDict
    ELSE LET n == Len(rows)
             before == ReferenceDict(SubSeq(rows, 1, n - 1))
             grain_id == rows[n].grainID
             variety == PyInt(rows[n].varietyNumber)
         IN  [k \in DOMAIN before \cup {grain_id} |->
                 IF k = grain_id THEN variety ELSE before[k]]

\* mutant: `self.reference_data = {}` moved above the check of the file
load_reference_data_ResetFirst(file) ==
    /\ stage = "scoring"
    /\ UNCHANGED <<stage, ingestion_vars>>
    /\ IF file = None
       THEN /\ call' = [op |-> "load_reference_data", exc |-> "FileNotFoundError",
                        reference_file |-> FALSE]
            /\ reference_data' = Some(EmptyDict)
       ELSE /\ reference_data' = Some(ReferenceDict(Get(file)))
            /\ call' = [op |-> "load_reference_data", exc |-> "none",
                        reference_file |-> TRUE]
    /\ UNCHANGED <<ingestion_result, ingestion_duration, scores_dict, scores_json>>

load_reference_data(file) ==
    /\ stage = "scoring"
    /\ UNCHANGED <<stage, ingestion_vars>>
    /\ IF file = None
       THEN /\ call' = [op |-> "load_reference_data", exc |-> "FileNotFoundError",
                        reference_file |-> FALSE]
            /\ UNCHANGED reference_data
       ELSE /\ reference_data' = Some(ReferenceDict(Get(file)))
            /\ call' = [op |-> "load_reference_data", exc |-> "none",
                        reference_file |-> TRUE]
    /\ UNCHANGED <<ingestion_result, ingestion_duration, scores_dict, scores_json>>

\* the value load_ingestion_result leaves in ingestion_duration
LoadedDuration(duration_file, old) ==
    IF duration_file # None
    THEN DictGetOrNone(Get(duration_file), "ingestion_duration")
    ELSE old

load_ingestion_result(result_file, duration_file) ==
    /\ stage = "scoring"
    /\ UNCHANGED <<stage, ingestion_vars>>
    /\ IF result_file = None
       THEN /\ call' = [op |-> "load_ingestion_result", exc |-> "FileNotFoundError",
                        result_file |-> FALSE, duration_file |-> duration_file # None]
            /\ UNCHANGED <<ingestion_result, ingestion_duration>>
       ELSE /\ ingestion_result' = Some(DictGet(Get(result_file), "predictions", EmptyDict))
            /\ ingestion_duration' = LoadedDuration(duration_file, ingestion_duration)
            /\ call' = [op |-> "load_ingestion_result", exc |-> "none",
                        result_file |-> TRUE, duration_file |-> duration_file # None]
    /\ UNCHANGED <<reference_data, scores_dict, scores_json>>

\* mutant: only the empty dict is caught, as by `if self.ingestion_result == {}`
NoPredictionsEmptyOnly(o) == o = Some(EmptyDict)

\* `if not self.ingestion_result` / `if not self.reference_data`
NoPredictions(o) == ~Truthy(o)
NoReference(o) == ~Truthy(o)

\* mutant: the comparison without int(), as by `predicted_variety == true_variety`
SameVarietyUncoerced(predicted_variety, true_variety) == predicted_variety = 2 * true_variety

\* int(predicted_variety) == int(true_variety); the stored truth is an int already
SameVariety(predicted_variety, true_variety) == PyInt(predicted_variety) = true_variety

\* the counting loop over ingestion_result.items()
RECURSIVE CountItems(_, _, _)
CountItems(P, R, keys) ==
    IF keys = {} THEN [correct |-> 0, total |-> 0, missing_ground_truth |-> 0]
    ELSE LET grain_id == CHOOSE k \in keys : TRUE
             c == CountItems(P, R, keys \ {grain_id})
         IN  IF grain_id \in DOMAIN R
             THEN [c EXCEPT !.correct = IF SameVariety(P[grain_id], R[grain_id])
                                        THEN @ + 1 ELSE @,
                            !.total = @ + 1]
             ELSE [c EXCEPT !.missing_ground_truth = @ + 1]

\* accuracy as the pair of its two roundings
Accuracy(correct, total) ==
    IF total > 0
    THEN [score |-> RoundRatio(correct, total, ScoreDigits),
          accuracy_percent |-> RoundRatio(correct * 100, total, PercentDigits)]
    ELSE [score |-> 0, accuracy_percent |-> 0]

\* mutant: the percentage stored as the score
ScoreRecordPercentAsScore(correct, total) ==
    [score |-> Accuracy(correct, total).accuracy_percent,
     correct |-> correct,
     total |-> total,
     accuracy_percent |-> Accuracy(correct, total).score]

\* the record stored at the end of compute_scores
ScoreRecord(correct, total) ==
    [score |-> Accuracy(correct, total).score,
     correct |-> correct,
     total |-> total,
     accuracy_percent |-> Accuracy(correct, total).accuracy_percent]

\* the record stored by the two early returns
ShortRecord == [score |-> 0]

\* mutant: the early returns set the score in the record that is there
ComputeScoresKeepsFields(ir, rd, old) ==
    IF NoPredictions(ir) \/ NoReference(rd)
    THEN [scores_dict |-> [k \in DOMAIN old \cup {"score"} |->
                              IF k = "score" THEN 0 ELSE old[k]],
          exc |-> "none"]
    ELSE LET c == CountItems(Get(ir), Get(rd), DOMAIN Get(ir))
         IN  [scores_dict |-> ScoreRecord(c.correct, c.total), exc |-> "none"]

\* what compute_scores stores and raises, from the two maps and the old record
ComputeScores(ir, rd, old) ==
    IF NoPredictions(ir) THEN [scores_dict |-> ShortRecord, exc |-> "none"]
    ELSE IF NoReference(rd) THEN [scores_dict |-> ShortRecord, exc |-> "none"]
    ELSE IF ir = None THEN [scores_dict |-> old, exc |-> "AttributeError"]
    ELSE IF rd = None THEN [scores_dict |-> old, exc |-> "TypeError"]
    ELSE LET c == CountItems(Get(ir), Get(rd), DOMAIN Get(ir))
         IN  [scores_dict |-> ScoreRecord(c.correct, c.total), exc |-> "none"]

\* the call record keeps the record the call replaced
compute_scores ==
    LET out == ComputeScores(ingestion_result, reference_data, scores_dict)
    IN  /\ stage = "scoring"
        /\ UNCHANGED <<stage, ingestion_vars>>
        /\ scores_dict' = out.scores_dict
        /\ call' = [op |-> "compute_scores", exc |-> out.exc, replaced |-> scores_dict]
        /\ UNCHANGED <<reference_data, ingestion_result, ingestion_duration, scores_json>>

write_scores ==
    /\ stage = "scoring"
    /\ UNCHANGED <<stage, ingestion_vars>>
    /\ scores_json' = Some(scores_dict)
    /\ call' = [op |-> "write_scores", exc |-> "none"]
    /\ UNCHANGED <<reference_data, ingestion_result, ingestion_duration, scores_dict>>

\* Scoring.__init__
ScoringInit ==
    /\ reference_data = None
    /\ ingestion_result = None
    /\ ingestion_duration = None
    /\ scores_dict = EmptyDict
    /\ scores_json = None

\* ---------------------------------------------------------------- Ingestion
\* file names as sequences of tokens, so that split('_') and endswith() are computed
F7a == <<"grain", "7", "_", "a", ".npz">>
F7b == <<"grain", "7", "_", "b", ".npz">>
F9a == <<"grain", "9", "_", "a", ".npz">>
SampleFiles == {F7a, F7b, F9a}
CsvName == <<"input", "_", "data", ".csv">>

\* what model.predict may return for one sample, in halves: 1.5 and 2.0
ModelOutputs == {3, 4}

Range(seq) == {seq[i] : i \in DOMAIN seq}

SeqsUpTo(S, n) == UNION {[1..k -> S] : k \in 0..n}

\* the orders in which a directory may list the files of S
Orderings(S) == {seq \in [1..Cardinality(S) -> S] : Range(seq) = S}

ManifestRows == [filename : SampleFiles, varietyNumber : Varieties]

\* input_data.csv: None when the file is absent, else its rows in order
Manifests(maxRows) ==
    {None} \cup {Some(rows) : rows \in SeqsUpTo(ManifestRows, maxRows)}

\* the input directory is any directory: input_data.csv, the sample files it holds
\* in directory order, and those of them np.load fails on
AnyInputDir(maxRows) ==
    \E S \in SUBSET SampleFiles :
        \E order \in Orderings(S), bad \in SUBSET S, m \in Manifests(maxRows) :
            input_dir = [manifest |-> m, npz |-> order, unreadable |-> bad]

\* the scoring program has no input directory
NoInputDir == [manifest |-> None, npz |-> <<>>, unreadable |-> {}]

\* os.listdir(input_dir)
ListDir(dir) == (IF dir.manifest = None THEN <<>> ELSE <<CsvName>>) \o dir.npz

\* os.path.exists(os.path.join(input_dir, filename))
Exists(dir, filename) == filename \in Range(ListDir(dir))

\* f.endswith('.npz')
EndsWithNpz(filename) == filename # <<>> /\ filename[Len(filename)] = ".npz"

RECURSIVE Join(_)
Join(tokens) == IF tokens = <<>> THEN "" ELSE Head(tokens) \o Join(Tail(tokens))

\* filename.split('_')[0]
RECURSIVE BeforeUnderscore(_)
BeforeUnderscore(tokens) ==
    IF tokens = <<>> \/ Head(tokens) = "_" THEN <<>>
    ELSE <<Head(tokens)>> \o BeforeUnderscore(Tail(tokens))

\* filename.split('_')[0].replace('grain', '')
GrainIdOf(filename) ==
    Join(SelectSeq(BeforeUnderscore(filename), LAMBDA t : t # "grain"))

\* mutant: a file np.load fails on is taken as loaded
LoadsDespiteError(dir, filename) == Exists(dir, filename)

\* a file of the list contributes a sample: it exists and np.load and data['x'] succeed
Loads(dir, filename) == Exists(dir, filename) /\ filename \notin dir.unreadable

\* reading data['y'] of a loaded file raises
LabelFails(dir, filename) == filename \in dir.unreadable_y

\* y_list.append(v)
AppendLabel(y, v) == IF y = None THEN Some(<<v>>) ELSE Some(Append(Get(y), v))

\* _load_npz_files(input_dir, filenames, load_labels); an image is represented by
\* the name of the file it was read from, y is None when y_list is empty; the
\* label fields of the directory are read only when load_labels is set
RECURSIVE _load_npz_files(_, _, _)
_load_npz_files(dir, filenames, load_labels) ==
    IF filenames = <<>> THEN [X |-> <<>>, y |-> None, grain_ids |-> <<>>]
    ELSE LET n == Len(filenames)
             filename == filenames[n]
             before == _load_npz_files(dir, SubSeq(filenames, 1, n - 1), load_labels)
         IN  IF ~Loads(dir, filename) THEN before
             ELSE IF load_labels /\ dir.y[filename] # None /\ LabelFails(dir, filename)
             THEN [before EXCEPT !.X = Append(@, filename)]
             ELSE [X |-> Append(before.X, filename),
                   y |-> IF load_labels /\ dir.y[filename] # None
                         THEN AppendLabel(before.y, Get(dir.y[filename]))
                         ELSE before.y,
                   grain_ids |-> Append(before.grain_ids, GrainIdOf(filename))]

\* [f for f in os.listdir(input_dir) if f.endswith('.npz')]
AllNpzFiles(dir) == SelectSeq(ListDir(dir), EndsWithNpz)

\* mutant: every sample file of the directory is taken as a test file
TestFilesUnfiltered(dir) == AllNpzFiles(dir)

\* [f for f in all_npz_files if f not in train_files]
TestFiles(dir) ==
    LET train_files == {Get(dir.manifest)[i].filename : i \in DOMAIN Get(dir.manifest)}
    IN  SelectSeq(AllNpzFiles(dir), LAMBDA f : f \notin train_files)

\* what load_train_and_test_data stores when input_data.csv is there
LoadTrainAndTestData(dir) ==
    LET df == Get(dir.manifest)
        train_filenames == [i \in DOMAIN df |-> df[i].filename]
        train_labels == [i \in DOMAIN df |-> df[i].varietyNumber]
        train == _load_npz_files(dir, train_filenames, FALSE)
        y_train == SubSeq(train_labels, 1, Len(train.X))
        test_files == TestFiles(dir)
        test == IF Len(test_files) > 0
                THEN _load_npz_files(dir, test_files, FALSE)
                ELSE train
    IN  [train_data |-> [X |-> train.X, y |-> y_train, grain_ids |-> train.grain_ids],
         test_data |-> [X |-> test.X, grain_ids |-> test.grain_ids],
         test_grain_ids |-> test.grain_ids]

load_train_and_test_data ==
    /\ stage = "ingestion"
    /\ UNCHANGED <<stage, scoring_vars, timer_vars>>
    /\ IF input_dir.manifest = None
       THEN /\ call' = [op |-> "load_train_and_test_data", exc |-> "FileNotFoundError"]
            /\ UNCHANGED <<train_data, test_data, test_grain_ids>>
       ELSE LET out == LoadTrainAndTestData(input_dir)
            IN  /\ train_data' = Some(out.train_data)
                /\ test_data' = Some(out.test_data)
                /\ test_grain_ids' = Some(out.test_grain_ids)
                /\ call' = [op |-> "load_train_and_test_data", exc |-> "none"]
    /\ UNCHANGED <<input_dir, predictions, Ingestion_result, result_json>>

\* self.predictions = self.model.predict(self.test_data), for whatever the model returns
predict_submission(returned) ==
    /\ stage = "ingestion"
    /\ UNCHANGED <<stage, scoring_vars, timer_vars>>
    /\ predictions' = Some(returned)
    /\ call' = [op |-> "predict_submission", exc |-> "none"]
    /\ UNCHANGED <<input_dir, train_data, test_data, test_grain_ids, Ingestion_result,
                   result_json>>

Min(a, b) == IF a <= b THEN a ELSE b

\* the loop `for grain_id, pred in zip(...): result[str(grain_id)] = int(pred)`
RECURSIVE ZipResult(_, _, _)
ZipResult(grain_ids, preds, n) ==
    IF n = 0 THEN EmptyDict
    ELSE LET before == ZipResult(grain_ids, preds, n - 1)
         IN  [k \in DOMAIN before \cup {grain_ids[n]} |->
                 IF k = grain_ids[n] THEN PyInt(preds[n]) ELSE before[k]]

\* the dict compute_result stores
ComputeResult(grain_ids, preds) ==
    LET result == ZipResult(grain_ids, preds, Min(Len(grain_ids), Len(preds)))
    IN  [predictions |-> result, num_predictions |-> Cardinality(DOMAIN result)]

compute_result ==
    /\ stage = "ingestion"
    /\ UNCHANGED <<stage, scoring_vars, timer_vars>>
    /\ IF test_grain_ids = None \/ predictions = None
       THEN /\ call' = [op |-> "compute_result", exc |-> "TypeError"]
            /\ UNCHANGED Ingestion_result
       ELSE /\ Ingestion_result' = Some(ComputeResult(Get(test_grain_ids), Get(predictions)))
            /\ call' = [op |-> "compute_result", exc |-> "none"]
    /\ UNCHANGED <<input_dir, train_data, test_data, test_grain_ids, predictions,
                   result_json>>

\* json.dumps(self.ingestion_result) written to result.json
save_result ==
    /\ stage = "ingestion"
    /\ UNCHANGED <<stage, scoring_vars, timer_vars>>
    /\ result_json' = Ingestion_result
    /\ call' = [op |-> "save_result", exc |-> "none"]
    /\ UNCHANGED <<input_dir, train_data, test_data, test_grain_ids, predictions,
                   Ingestion_result>>

\* self.start_time = dt.now()
start_timer ==
    /\ stage = "ingestion"
    /\ start_time' = Some(now)
    /\ call' = [op |-> "start_timer", exc |-> "none"]
    /\ UNCHANGED <<stage, scoring_vars, now, end_time, duration_json>>
    /\ UNCHANGED <<input_dir, train_data, test_data, test_grain_ids, predictions,
                   Ingestion_result, result_json>>

\* self.end_time = dt.now()
stop_timer ==
    /\ stage = "ingestion"
    /\ end_time' = Some(now)
    /\ call' = [op |-> "stop_timer", exc |-> "none"]
    /\ UNCHANGED <<stage, scoring_vars, now, start_time, duration_json>>
    /\ UNCHANGED <<input_dir, train_data, test_data, test_grain_ids, predictions,
                   Ingestion_result, result_json>>

\* what get_duration returns: None, or end_time - start_time in half minutes
GetDuration(start, end) ==
    IF start = None THEN None
    ELSE IF end = None THEN None
    ELSE Some(Get(end) - Get(start))

get_duration ==
    /\ stage = "ingestion"
    /\ call' = [op |-> "get_duration", exc |-> "none",
                returned |-> GetDuration(start_time, end_time)]
    /\ UNCHANGED <<stage, scoring_vars, timer_vars>>
    /\ UNCHANGED <<input_dir, train_data, test_data, test_grain_ids, predictions,
                   Ingestion_result, result_json>>

\* what save_duration raises and leaves in ingestion_duration.json: total_seconds()
\* is called on what get_duration returned, then the path is joined, then the
\* duration is tested
SaveDuration(start, end, output_dir, old) ==
    LET duration == GetDuration(start, end)
    IN  IF duration = None THEN [exc |-> "AttributeError", duration_json |-> old]
        ELSE IF output_dir = None THEN [exc |-> "TypeError", duration_json |-> old]
        ELSE [exc |-> "none",
              duration_json |-> Some([ingestion_duration |-> PyInt(Get(duration))])]

save_duration(output_dir) ==
    LET out == SaveDuration(start_time, end_time, output_dir, duration_json)
    IN  /\ stage = "ingestion"
        /\ duration_json' = out.duration_json
        /\ call' = [op |-> "save_duration", exc |-> out.exc]
        /\ UNCHANGED <<stage, scoring_vars, now, start_time, end_time>>
        /\ UNCHANGED <<input_dir, train_data, test_data, test_grain_ids, predictions,
                       Ingestion_result, result_json>>

\* Ingestion.__init__
IngestionInit ==
    /\ start_time = None
    /\ end_time = None
    /\ duration_json = None
    /\ now = 0
    /\ train_data = None
    /\ test_data = None
    /\ predictions = None
    /\ test_grain_ids = None
    /\ Ingestion_result = None
    /\ result_json = None

\* ----------------------------------------------------------- specifications
\* input_data.csv disappears from the input directory
RemoveManifest ==
    /\ stage = "ingestion"
    /\ input_dir.manifest # None
    /\ input_dir' = [input_dir EXCEPT !.manifest = None]
    /\ call' = [op |-> "os.remove", exc |-> "none"]
    /\ UNCHANGED <<stage, scoring_vars, timer_vars, train_data, test_data, test_grain_ids,
                   predictions, Ingestion_result, result_json>>

LoadReference == \E file \in ReferenceFiles : load_reference_data(file)

LoadResult ==
    \E result_file \in ResultFiles, duration_file \in DurationFiles :
        load_ingestion_result(result_file, duration_file)

\* Spec: either process, constructed, calls its loaders in any order, any number of
\* times, over a directory whose manifest may disappear
Init ==
    /\ call = [op |-> "__init__", exc |-> "none"]
    /\ ScoringInit
    /\ IngestionInit
    /\ \/ stage = "ingestion" /\ AnyInputDir(MaxRows)
       \/ stage = "scoring" /\ input_dir = NoInputDir

Next == LoadReference \/ LoadResult \/ load_train_and_test_data \/ RemoveManifest

Spec == Init /\ [][Next]_vars

\* SpecScore: compute_scores and write_scores on every pair of loaded or never
\* loaded maps
ScoreInit ==
    /\ stage = "scoring"
    /\ call = [op |-> "__init__", exc |-> "none"]
    /\ reference_data \in {None} \cup {Some(m) : m \in ReferenceMaps}
    /\ ingestion_result \in {None} \cup {Some(m) : m \in PredictionMaps}
    /\ ingestion_duration = None
    /\ scores_dict = EmptyDict
    /\ scores_json = None
    /\ IngestionInit
    /\ input_dir = NoInputDir

ScoreNext == compute_scores \/ write_scores

SpecScore == ScoreInit /\ [][ScoreNext]_vars

\* SpecRun: one ingestion run in the order of the ingestion program: load, predict,
\* compute_result, save_result
RunInit ==
    /\ stage = "ingestion"
    /\ call = [op |-> "__init__", exc |-> "none"]
    /\ ScoringInit
    /\ IngestionInit
    /\ AnyInputDir(MaxRunRows)

RunLoad == call.op = "__init__" /\ load_train_and_test_data

RunPredict ==
    /\ call = [op |-> "load_train_and_test_data", exc |-> "none"]
    /\ \E returned \in SeqsUpTo(ModelOutputs, Len(Get(test_grain_ids)) + MaxOff) :
          /\ Len(returned) >= Len(Get(test_grain_ids)) - MaxOff
          /\ predict_submission(returned)

RunResult == call.op = "predict_submission" /\ compute_result

RunSave == call = [op |-> "compute_result", exc |-> "none"] /\ save_result

RunNext == RunLoad \/ RunPredict \/ RunResult \/ RunSave

SpecRun == RunInit /\ [][RunNext]_vars

\* SpecTimer: the timer of one Ingestion object, its calls in any order while the
\* clock advances
Tick ==
    /\ stage = "ingestion"
    /\ now < MaxClock
    /\ now' = now + 1
    /\ call' = [op |-> "tick", exc |-> "none"]
    /\ UNCHANGED <<stage, scoring_vars, start_time, end_time, duration_json>>
    /\ UNCHANGED <<input_dir, train_data, test_data, test_grain_ids, predictions,
                   Ingestion_result, result_json>>

OutputDirs == {None, Some("output")}

SaveDurationTo == \E output_dir \in OutputDirs : save_duration(output_dir)

TimerInit ==
    /\ stage = "ingestion"
    /\ call = [op |-> "__init__", exc |-> "none"]
    /\ ScoringInit
    /\ IngestionInit
    /\ input_dir = NoInputDir

TimerNext == Tick \/ start_timer \/ stop_timer \/ get_duration \/ SaveDurationTo

SpecTimer == TimerInit /\ [][TimerNext]_vars

\* SpecNpz: one call of _load_npz_files, on any list of names and either value of
\* load_labels, over any directory of sample files: each file may fail in np.load,
\* may hold a label 'y', and reading that label may fail
AnyNpzDir ==
    \E S \in SUBSET SampleFiles :
        \E order \in Orderings(S), bad \in SUBSET S,
           labels \in [S -> {None} \cup {Some(v) : v \in Varieties}] :
            \E bad_y \in SUBSET {f \in S : labels[f] # None} :
                input_dir = [manifest |-> None, npz |-> order, unreadable |-> bad,
                             y |-> labels, unreadable_y |-> bad_y]

NpzInit ==
    /\ stage = "ingestion"
    /\ call = [op |-> "__init__", exc |-> "none"]
    /\ ScoringInit
    /\ IngestionInit
    /\ AnyNpzDir

LoadNpzFiles ==
    /\ stage = "ingestion"
    /\ call.op = "__init__"
    /\ \E filenames \in SeqsUpTo(SampleFiles, MaxFiles), load_labels \in BOOLEAN :
          call' = [op |-> "_load_npz_files", exc |-> "none",
                   filenames |-> filenames, load_labels |-> load_labels,
                   returned |-> _load_npz_files(input_dir, filenames, load_labels)]
    /\ UNCHANGED <<stage, scoring_vars, ingestion_vars>>

SpecNpz == NpzInit /\ [][LoadNpzFiles]_vars

\* SpecRescore: one Scoring object whose loaders and compute_scores are called in
\* any order, any number of times; the duration file, which compute_scores does not
\* read, is left out
RescoreInit ==
    /\ stage = "scoring"
    /\ call = [op |-> "__init__", exc |-> "none"]
    /\ ScoringInit
    /\ IngestionInit
    /\ input_dir = NoInputDir

\* load_ingestion_result on a directory without ingestion_duration.json
LoadResultOnly == \E result_file \in ResultFiles : load_ingestion_result(result_file, None)

RescoreNext == LoadReference \/ LoadResultOnly \/ compute_scores

SpecRescore == RescoreInit /\ [][RescoreNext]_vars

\* ------------------------------------------------------- claims on scoring
AfterComputeScores == call.op = "compute_scores"

\* ids of the prediction map that are keys of the reference map
Shared == DOMAIN Get(ingestion_result) \cap DOMAIN Get(reference_data)

\* shared ids whose predicted variety is the reference variety, as integers
Agreeing == {k \in Shared : PyInt(Get(ingestion_result)[k]) = Get(reference_data)[k]}

One == Pow10(ScoreDigits)

FullRecord == DOMAIN scores_dict = {"score", "correct", "total", "accuracy_percent"}

\* C1 as stated: for non-empty prediction and reference maps, total is the number
\* of shared ids, correct the number of shared ids with equal varieties, and score
\* is exactly correct/total (0.0 when total = 0)
C1_ScoreIsExactRatio ==
    (AfterComputeScores /\ Truthy(ingestion_result) /\ Truthy(reference_data)) =>
        /\ FullRecord
        /\ scores_dict.total = Cardinality(Shared)
        /\ scores_dict.correct = Cardinality(Agreeing)
        /\ scores_dict.score * scores_dict.total = scores_dict.correct * One

\* C1 amended: for non-empty prediction and reference maps, total is the number of
\* shared ids, correct the number of shared ids with equal varieties (ids without
\* ground truth count in neither), and score is correct/total rounded to six
\* decimals, i.e. the millionth nearest to correct/total (0.0 when total = 0)
C1_CountsAndRoundedRatio ==
    (AfterComputeScores /\ Truthy(ingestion_result) /\ Truthy(reference_data)) =>
        /\ FullRecord
        /\ scores_dict.total = Cardinality(Shared)
        /\ scores_dict.correct = Cardinality(Agreeing)
        /\ LET d == scores_dict.score * scores_dict.total - scores_dict.correct * One
           IN  2 * d <= scores_dict.total /\ -2 * d <= scores_dict.total
        /\ (scores_dict.total = 0 => scores_dict.score = 0)

\* the example of the claim, with varieties of the model: "5" has no ground truth,
\* "7" is right, "9" is wrong
C1_Witness ==
    /\ AfterComputeScores
    /\ Truthy(ingestion_result) /\ Truthy(reference_data)
    /\ DOMAIN Get(ingestion_result) = {"5", "7", "9"}
    /\ DOMAIN Get(reference_data) = {"7", "9"}
    /\ scores_dict.correct = 1 /\ scores_dict.total = 2
    /\ 2 * scores_dict.score = One

\* C2: compute_scores does not raise and yields score 0.0 when either map is None
\* or empty or the two maps share no grain id
C2_ZeroWithoutSharedIds ==
    (/\ AfterComputeScores
     /\ \/ ingestion_result = None \/ reference_data = None
        \/ ~Truthy(ingestion_result) \/ ~Truthy(reference_data)
        \/ Shared = {})
    => (call.exc = "none" /\ "score" \in DOMAIN scores_dict /\ scores_dict.score = 0)

C2_Witness ==
    /\ AfterComputeScores
    /\ Truthy(ingestion_result) /\ Truthy(reference_data)
    /\ Shared = {}
    /\ scores_dict.score = 0

\* compute_scores on a prediction map never loaded, with a loaded reference map
C2_WitnessNone ==
    /\ AfterComputeScores
    /\ ingestion_result = None /\ Truthy(reference_data)
    /\ scores_dict.score = 0

\* C3 as stated: score is 1.0 whenever the two maps agree on every id they share
C3_AgreeingGivesOne ==
    (/\ AfterComputeScores
     /\ Truthy(ingestion_result) /\ Truthy(reference_data)
     /\ Agreeing = Shared)
    => scores_dict.score = One

\* C3 amended: score is 1.0 whenever the two maps share at least one grain id and
\* agree on every id they share
C3_AgreeingOnSomeIdGivesOne ==
    (/\ AfterComputeScores
     /\ ingestion_result # None /\ reference_data # None
     /\ Shared # {}
     /\ Agreeing = Shared)
    => ("score" \in DOMAIN scores_dict /\ scores_dict.score = One)

\* agreement on two shared ids next to an id without ground truth
C3_Witness ==
    /\ AfterComputeScores
    /\ ingestion_result # None /\ reference_data # None
    /\ Cardinality(Shared) = 2 /\ Agreeing = Shared
    /\ DOMAIN Get(ingestion_result) # Shared
    /\ scores_dict.score = One

\* C4: after compute_scores, on every path, the score record holds the four fields
\* score, correct, total and accuracy_percent
C4_RecordHasFourFields == AfterComputeScores => FullRecord

\* C5: after compute_scores, for any prediction and reference maps, the record
\* satisfies 0 <= correct <= total <= number of entries of the prediction map, and
\* its score lies in [0,1]
C5_CountsAndScoreInRange ==
    AfterComputeScores =>
        /\ {"score", "correct", "total"} \subseteq DOMAIN scores_dict
        /\ 0 <= scores_dict.score /\ scores_dict.score <= One
        /\ 0 <= scores_dict.correct
        /\ scores_dict.correct <= scores_dict.total
        /\ scores_dict.total
              <= (IF ingestion_result = None THEN 0
                  ELSE Cardinality(DOMAIN Get(ingestion_result)))

\* C5 where the record carries what it speaks of: the score always lies in [0,1],
\* and the counts, stored by every call that passes the two early returns, satisfy
\* 0 <= correct <= total <= number of entries of the prediction map
C5_InRangeWhereStored ==
    AfterComputeScores =>
        /\ "score" \in DOMAIN scores_dict
        /\ 0 <= scores_dict.score /\ scores_dict.score <= One
        /\ (Truthy(ingestion_result) /\ Truthy(reference_data)) =>
              /\ {"correct", "total"} \subseteq DOMAIN scores_dict
              /\ 0 <= scores_dict.correct
              /\ scores_dict.correct <= scores_dict.total
              /\ scores_dict.total <= Cardinality(DOMAIN Get(ingestion_result))

\* some but not all predictions have ground truth, some but not all of those are right
C5_Witness ==
    /\ AfterComputeScores
    /\ "correct" \in DOMAIN scores_dict
    /\ 0 < scores_dict.correct
    /\ scores_dict.correct < scores_dict.total
    /\ scores_dict.total < Cardinality(DOMAIN Get(ingestion_result))

\* ----------------------------------------------------- claims on ingestion
Loaded == stage = "ingestion" /\ call = [op |-> "load_train_and_test_data", exc |-> "none"]

\* the file names the manifest lists
Listed == {Get(input_dir.manifest)[i].filename : i \in DOMAIN Get(input_dir.manifest)}

\* the .npz files found in the directory
Discovered == {f \in Range(input_dir.npz) : f[Len(f)] = ".npz"}

Unlisted == Discovered \ Listed

\* the files of the directory that np.load reads
Readable == Range(input_dir.npz) \ input_dir.unreadable

TrainSamples == Range(Get(train_data).X)
TestSamples == Range(Get(test_data).X)

\* C6 as stated: every listed file is a training sample, every discovered .npz file
\* that is not listed is a test sample, and the two sets partition the samples
C6_ExactPartition ==
    Loaded =>
        /\ Listed \subseteq TrainSamples
        /\ Unlisted \subseteq TestSamples
        /\ TrainSamples \cap TestSamples = {}
        /\ TrainSamples \cup TestSamples = Listed \cup Discovered

\* C6 amended: the training samples are exactly the listed files that exist in the
\* directory and load without error; when some discovered .npz file is not listed,
\* the test samples are exactly the unlisted .npz files that load without error, and
\* no sample is in both sets; when none is, the test set is the training set
C6_PartitionOfLoadedFiles ==
    Loaded =>
        /\ TrainSamples = Listed \cap Readable
        /\ Unlisted # {} =>
              /\ TestSamples = Unlisted \cap Readable
              /\ TrainSamples \cap TestSamples = {}
              /\ TrainSamples \cup TestSamples = (Listed \cup Discovered) \cap Readable
        /\ Unlisted = {} => TestSamples = TrainSamples

\* a listed file that is missing from the directory, a listed file that loads and
\* an unlisted file that loads
C6_Witness ==
    /\ Loaded
    /\ Listed \ Range(input_dir.npz) # {}
    /\ TrainSamples # {}
    /\ Unlisted # {}
    /\ TestSamples # {}

\* C9: the training samples serve as the test set exactly when no .npz file of the
\* directory is missing from the manifest; otherwise the test set is built from
\* unlisted files only and holds no training sample
C9_FallbackOnlyWithoutUnlisted ==
    Loaded =>
        /\ Unlisted = {} =>
              /\ Get(test_data).X = Get(train_data).X
              /\ Get(test_data).grain_ids = Get(train_data).grain_ids
              /\ test_grain_ids = Some(Get(train_data).grain_ids)
        /\ Unlisted # {} =>
              /\ TestSamples \subseteq Unlisted
              /\ TestSamples \cap TrainSamples = {}
              /\ (TrainSamples # {} => Get(test_data).X # Get(train_data).X)

\* the fallback taken with a training sample to reuse
C9_Witness ==
    /\ Loaded
    /\ Unlisted = {}
    /\ Get(train_data).X # <<>>
    /\ Get(test_data).X = Get(train_data).X

\* no fallback although the only unlisted file fails to load
C9_WitnessEmptyTest ==
    /\ Loaded
    /\ Unlisted # {}
    /\ TrainSamples # {}
    /\ TestSamples = {}

AfterComputeResult == stage = "ingestion" /\ call = [op |-> "compute_result", exc |-> "none"]

\* C7: after load, predict and compute_result the prediction map has one entry per
\* test sample: num_predictions is the number of loaded test samples
C7_OneEntryPerTestSample ==
    AfterComputeResult =>
        /\ Get(Ingestion_result).num_predictions = Len(Get(test_data).X)
        /\ Cardinality(DOMAIN Get(Ingestion_result).predictions) = Len(Get(test_data).X)

\* C8: the prediction map sends the i-th test grain id to the integer value of the
\* i-th prediction, for every index i that has a prediction
C8_PairedByPosition ==
    AfterComputeResult =>
        \A i \in 1..Min(Len(Get(test_grain_ids)), Len(Get(predictions))) :
            /\ Get(test_grain_ids)[i] \in DOMAIN Get(Ingestion_result).predictions
            /\ Get(Ingestion_result).predictions[Get(test_grain_ids)[i]]
                  = PyInt(Get(predictions)[i])

\* C10: a loader whose required file is absent fails with FileNotFoundError and
\* leaves the loaded data as it was; load_ingestion_result without
\* ingestion_duration.json does not fail and does not touch ingestion_duration
C10_MissingInputFiles ==
    [][
        /\ (/\ stage = "ingestion"
            /\ call'.op = "load_train_and_test_data"
            /\ input_dir.manifest = None)
           => /\ call'.exc = "FileNotFoundError"
              /\ train_data' = train_data
              /\ test_data' = test_data
              /\ test_grain_ids' = test_grain_ids
        /\ (call'.op = "load_reference_data" /\ ~call'.reference_file)
           => /\ call'.exc = "FileNotFoundError"
              /\ reference_data' = reference_data
        /\ (call'.op = "load_ingestion_result" /\ ~call'.result_file)
           => /\ call'.exc = "FileNotFoundError"
              /\ ingestion_result' = ingestion_result
              /\ ingestion_duration' = ingestion_duration
        /\ (call'.op = "load_ingestion_result" /\ call'.result_file
              /\ ~call'.duration_file)
           => /\ call'.exc = "none"
              /\ ingestion_duration' = ingestion_duration
    ]_vars

\* reference_data.csv is absent on a second call: the first call's data stay
C10_Witness ==
    /\ call.op = "load_reference_data"
    /\ call.exc = "FileNotFoundError"
    /\ reference_data # None /\ DOMAIN Get(reference_data) # {}

\* input_data.csv is absent on a second call: the first call's data stay
C10_WitnessManifest ==
    /\ call = [op |-> "load_train_and_test_data", exc |-> "FileNotFoundError"]
    /\ train_data # None /\ Get(train_data).X # <<>>

\* result.json is there without ingestion_duration.json, on a fresh object
C10_WitnessDuration ==
    /\ call.op = "load_ingestion_result"
    /\ call.exc = "none" /\ ~call.duration_file
    /\ ingestion_result # None
    /\ ingestion_duration = None

\* ------------------------------------------------------- claims on the timer
\* the timer was never started or never stopped
TimerIncomplete == start_time = None \/ end_time = None

\* C11: a duration accessor called before start_timer or before stop_timer returns
\* None, writes no duration file and raises nothing
C11_AccessorsNeverRaise ==
    [][/\ TimerIncomplete
       /\ call'.op \in {"get_duration", "save_duration"}
       => /\ call'.exc = "none"
          /\ duration_json' = duration_json
          /\ call'.op = "get_duration" => call'.returned = None]_vars

\* get_duration alone keeps the contract
C11_GetDurationReturnsNone ==
    [][TimerIncomplete /\ call'.op = "get_duration"
       => call'.exc = "none" /\ call'.returned = None /\ UNCHANGED duration_json]_vars

\* ------------------------------------------------- claims on _load_npz_files
AfterLoadNpzFiles == call.op = "_load_npz_files"

\* loading the file raises an error: in np.load or data['x'], or in data['y']
LoadRaises(dir, filename, load_labels) ==
    \/ filename \in dir.unreadable
    \/ load_labels /\ filename \in dir.unreadable_y

\* the files of the list that exist and load without error, in list order
LoadedWithoutError(dir, filenames, load_labels) ==
    SelectSeq(filenames,
              LAMBDA f : f \in Range(dir.npz) /\ ~LoadRaises(dir, f, load_labels))

\* C12: _load_npz_files does not fail; it returns the existing files of the list
\* that load without error, in list order, one grain id per image; a file whose
\* loading raises contributes neither image nor grain id
C12_SkipsFailingFiles ==
    AfterLoadNpzFiles =>
        LET out == call.returned
        IN  /\ call.exc = "none"
            /\ out.X = LoadedWithoutError(input_dir, call.filenames, call.load_labels)
            /\ Len(out.grain_ids) = Len(out.X)
            /\ \A i \in DOMAIN out.X : out.grain_ids[i] = GrainIdOf(out.X[i])

\* the claim holds for the calls that do not load labels, the two calls that
\* load_train_and_test_data makes
C12_SkipsWithoutLabels ==
    AfterLoadNpzFiles /\ ~call.load_labels => C12_SkipsFailingFiles

\* ------------------------------------------------------ claims on rescoring
\* the record that the current maps determine: the score alone when a map is None
\* or empty, else the counts over the shared ids and the two rounded ratios
DeterminedByMaps ==
    IF ~Truthy(ingestion_result) \/ ~Truthy(reference_data)
    THEN scores_dict = [score |-> 0]
    ELSE /\ FullRecord
         /\ scores_dict.total = Cardinality(Shared)
         /\ scores_dict.correct = Cardinality(Agreeing)
         /\ LET t == scores_dict.total
                c == scores_dict.correct
                d == scores_dict.score * t - c * One
                e == scores_dict.accuracy_percent * t - c * Pow10(PercentDigits + 2)
            IN  /\ 2 * d <= t /\ -2 * d <= t
                /\ 2 * e <= t /\ -2 * e <= t
                /\ t = 0 => scores_dict.score = 0 /\ scores_dict.accuracy_percent = 0

\* C13: whatever was loaded and computed before, compute_scores leaves the record
\* that the current prediction and reference maps determine, with no field or
\* count of the record it replaces, and a second compute_scores right after it
\* leaves the same record
C13_RecomputedFromCurrentMaps ==
    [][call'.op = "compute_scores"
       => /\ call'.exc = "none"
          /\ DeterminedByMaps'
          /\ AfterComputeScores => scores_dict' = scores_dict]_vars

\* compute_scores replaced the four-field record of an earlier call, computed from
\* other maps, by the short record
C13_Witness ==
    /\ AfterComputeScores
    /\ DOMAIN call.replaced = {"score", "correct", "total", "accuracy_percent"}
    /\ call.replaced.total = 1 /\ call.replaced.correct = 1
    /\ scores_dict = [score |-> 0]

\* compute_scores called twice without a reload
C13_WitnessTwice ==
    /\ AfterComputeScores
    /\ FullRecord
    /\ call.replaced = scores_dict

\* ------------------------------------------------- claims on training labels
\* sample i of the training data carries a label that a manifest row gives for the
\* file it was loaded from, and the grain id of that file
OwnLabel(i) ==
    LET train == Get(train_data)
        df == Get(input_dir.manifest)
    IN  /\ i \in DOMAIN train.y
        /\ i \in DOMAIN train.grain_ids
        /\ train.grain_ids[i] = GrainIdOf(train.X[i])
        /\ \E r \in DOMAIN df :
              df[r].filename = train.X[i] /\ df[r].varietyNumber = train.y[i]

\* C14: after load_train_and_test_data every training sample is paired with the
\* manifest label of its own file, also when listed files are missing from the
\* directory or fail to load
C14_PairedWithOwnLabel ==
    Loaded => \A i \in DOMAIN Get(train_data).X : OwnLabel(i)

\* the pairing holds when no listed file is skipped
C14_PairedWhenNoneSkipped ==
    (Loaded /\ Listed \subseteq Readable) =>
        \A i \in DOMAIN Get(train_data).X : OwnLabel(i)

====
